---- MODULE Spec2Model ----
(***************************************************************************)
(* Model of "Pyhton scripts/s1.py": a VLOOKUP-like merge of a column of    *)
(* workbook A into a column of workbook B.  main() is a straight-line      *)
(* pipeline; every statement group of main() is one action and pc is the   *)
(* position in main().                                                     *)
(*                                                                         *)
(* Cells are tagged records (blank / text / number).  A text is a sequence *)
(* of one-character strings, so that str.strip and str.casefold are        *)
(* computed, not assumed.  pandas semantics used (pandas 1.x / 2.x):       *)
(*   - read_excel turns the default NA strings ("", "nan", "NaN", ...)     *)
(*     into NaN;                                                           *)
(*   - Series.astype(str) renders NaN as the text "nan";                   *)
(*   - groupby(k)[c].first() keeps, per group, the first non-null value    *)
(*     (NaN when the group has none);                                      *)
(*   - Series.map(series) yields NaN for a key that is not in the index.   *)
(***************************************************************************)
EXTENDS Integers, Sequences, FiniteSets, TLC

VARIABLES
    args,            \* argparse namespace (line 40)
    fs,              \* which input paths exist
    book_a,          \* workbook A on disk: sequence of [name, table]
    book_b,          \* workbook B on disk
    pc,              \* position in main()
    df_a,            \* DataFrame read from A (line 55), later with _key_norm_
    df_b,            \* DataFrame read from B (line 56)
    mapping,         \* line 68
    key_b_norm,      \* line 71
    matched_values,  \* line 72
    matches,         \* line 88 (-1: never assigned)
    total,           \* line 89 (-1: never assigned)
    stdout,          \* lines 90, 116
    out_book,        \* the output workbook (<<>>: never written)
    exit             \* [status, error]; status -1 while running

vars == <<args, fs, book_a, book_b, pc, df_a, df_b, mapping, key_b_norm,
          matched_values, matches, total, stdout, out_book, exit>>

---------------------------------------------------------------------------
(* Bounds *)

MaxRowsA == 3
MaxRowsB == 2

---------------------------------------------------------------------------
(* Cells and texts *)

Blank == [t |-> "blank", s |-> <<>>, n |-> 0]
Str(s) == [t |-> "str", s |-> s, n |-> 0]
Num(n) == [t |-> "num", s |-> <<>>, n |-> n]

IsNa(c) == c.t = "blank"

Whitespace == {" "}

RECURSIVE LStrip(_)
LStrip(s) == IF s # <<>> /\ Head(s) \in Whitespace THEN LStrip(Tail(s)) ELSE s

RECURSIVE RStrip(_)
RStrip(s) ==
    IF s # <<>> /\ s[Len(s)] \in Whitespace
    THEN RStrip(SubSeq(s, 1, Len(s) - 1))
    ELSE s

\* str.strip()
Strip(s) == RStrip(LStrip(s))

FoldChar(c) ==
    CASE c = "A" -> "a"
      [] c = "N" -> "n"
      [] OTHER -> c

\* str.casefold()
CaseFold(s) == [i \in 1..Len(s) |-> FoldChar(s[i])]

Digit(n) == CASE n = 0 -> "0" [] n = 1 -> "1" [] n = 2 -> "2" [] n = 3 -> "3"
              [] n = 4 -> "4" [] n = 5 -> "5" [] n = 6 -> "6" [] n = 7 -> "7"
              [] n = 8 -> "8" [] OTHER -> "9"

\* dtype of a column read by read_excel: float64 when it holds numbers with
\* holes (or nothing but holes), object when it holds any text, else int64
FloatDtype(series) ==
    /\ \E i \in 1..Len(series) : series[i].t = "blank"
    /\ \A i \in 1..Len(series) : series[i].t # "str"

\* Series.astype(str), one element: str(NaN) is "nan", a number of a float64
\* column prints with its fraction ("1.0"), an int prints bare ("1")
AsTypeStr(c, float) ==
    CASE c.t = "blank" -> <<"n", "a", "n">>
      [] c.t = "str" -> c.s
      [] OTHER -> IF float THEN <<Digit(c.n), ".", "0">> ELSE <<Digit(c.n)>>

\* .astype(str).str.strip().str.casefold(), one element
NormalizeCell(c, float) == CaseFold(Strip(AsTypeStr(c, float)))

\* lines 15-17
normalize_key(series) ==
    [i \in 1..Len(series) |-> NormalizeCell(series[i], FloatDtype(series))]

---------------------------------------------------------------------------
(* Workbooks and read_excel *)

\* the default NA strings of read_excel over the model's alphabet
DefaultNaStrings == {<<>>, <<"n", "a", "n">>, <<"N", "a", "N">>, <<"N", "A">>}

NaConvert(c) == IF c.t = "str" /\ c.s \in DefaultNaStrings THEN Blank ELSE c

InCols(col, df) == \E i \in 1..Len(df.cols) : df.cols[i] = col

ColSet(df) == {df.cols[i] : i \in 1..Len(df.cols)}

\* args.sheet_x is the int 0 (the default) or a str given on the command line
Default0 == [isint |-> TRUE, i |-> 0, s |-> "0"]
ByName(s) == [isint |-> FALSE, i |-> 0, s |-> s]

\* position of the sheet read_excel selects, 0 when it raises
SheetPos(book, sel) ==
    IF sel.isint
    THEN IF sel.i + 1 <= Len(book) THEN sel.i + 1 ELSE 0
    ELSE IF \E p \in 1..Len(book) : book[p].name = sel.s
         THEN CHOOSE p \in 1..Len(book) : book[p].name = sel.s
         ELSE 0

ReadTable(tab) ==
    [cols |-> tab.cols,
     rows |-> [i \in 1..Len(tab.rows) |->
                 [c \in DOMAIN tab.rows[i] |-> NaConvert(tab.rows[i][c])]]]

read_excel(book, sel) == ReadTable(book[SheetPos(book, sel)].table)

NoFrame == [cols |-> <<>>, rows |-> <<>>]

---------------------------------------------------------------------------
(* Series and DataFrame operations used by main() *)

Min(S) == CHOOSE x \in S : \A y \in S : x <= y

\* df[col] = series : assign a whole column, creating it when missing
SetColumn(df, col, series) ==
    [cols |-> IF InCols(col, df) THEN df.cols ELSE Append(df.cols, col),
     rows |-> [i \in 1..Len(df.rows) |->
                 [c \in (DOMAIN df.rows[i]) \cup {col} |->
                     IF c = col THEN series[i] ELSE df.rows[i][c]]]]

\* df[col] as a series
Column(df, col) == [i \in 1..Len(df.rows) |-> df.rows[i][col]]

\* mutant: the first row of each group, null or not (Series.iloc[0] per group)
GroupFirst_StrictlyFirst(df, col) ==
    LET n == Len(df.rows)
        keyOf(i) == df.rows[i]["_key_norm_"].s
        keys == {keyOf(i) : i \in 1..n}
        rowsOf(k) == {i \in 1..n : keyOf(i) = k}
    IN  [k \in keys |-> df.rows[Min(rowsOf(k))][col]]

\* df.groupby("_key_norm_")[col].first()
GroupFirst(df, col) ==
    LET n == Len(df.rows)
        keyOf(i) == df.rows[i]["_key_norm_"].s
        keys == {keyOf(i) : i \in 1..n}
        hits(k) == {i \in 1..n : keyOf(i) = k /\ ~IsNa(df.rows[i][col])}
    IN  [k \in keys |-> IF hits(k) = {} THEN Blank ELSE df.rows[Min(hits(k))][col]]

\* series.map(mapping)
SeriesMap(series, m) ==
    [i \in 1..Len(series) |-> IF series[i] \in DOMAIN m THEN m[series[i]] ELSE Blank]

\* line 66: df_a["_key_norm_"] = normalize_key(df_a[key_a])
WithKeyNorm(df, key) ==
    LET norm == normalize_key(Column(df, key))
    IN  SetColumn(df, "_key_norm_", [i \in 1..Len(norm) |-> Str(norm[i])])

\* mutant: the missing column is created by blanking the whole frame
\* (df_b[:] = pd.NA) instead of the one column
EnsureTargetColumn_BlanksFrame(df, target) ==
    IF InCols(target, df)
    THEN df
    ELSE [cols |-> Append(df.cols, target),
          rows |-> [i \in 1..Len(df.rows) |->
                      [c \in (DOMAIN df.rows[i]) \cup {target} |-> Blank]]]

\* lines 76-77: df_b[target_b] = pd.NA when the column is missing
EnsureTargetColumn(df, target) ==
    IF InCols(target, df)
    THEN df
    ELSE SetColumn(df, target, [i \in 1..Len(df.rows) |-> Blank])

\* lines 59-63: the first required column that is missing, "" when none is
FirstMissing(a, ka, sa, b, kb) ==
    IF ~InCols(ka, a) THEN "key-a"
    ELSE IF ~InCols(sa, a) THEN "source-a"
    ELSE IF ~InCols(kb, b) THEN "key-b"
    ELSE ""

Running == [status |-> -1, error |-> ""]
Failed(e) == [status |-> 1, error |-> e]

---------------------------------------------------------------------------
(* Inputs *)

SeqsUpTo(S, n) == UNION {[1..k -> S] : k \in 0..n}

KeyCellsA == {Blank, Str(<<"a">>), Str(<<" ", "A">>)}
KeyCellsB == {Blank, Str(<<"A">>), Str(<<" ">>)}
ValCells  == {Blank, Num(1), Num(2)}
TargetCells == {Blank, Num(5), Str(<<" ">>)}

RowsA == {[K |-> k, S |-> v] : k \in KeyCellsA, v \in ValCells}
RowsB2 == {[K |-> k, O |-> Num(7)] : k \in KeyCellsB}
RowsB3 == {[K |-> k, O |-> Num(7), T |-> t] : k \in KeyCellsB, t \in TargetCells}

TablesA == {[cols |-> <<"K", "S">>, rows |-> r] : r \in SeqsUpTo(RowsA, MaxRowsA)}
TablesB ==
    {[cols |-> <<"K", "O">>, rows |-> r] : r \in SeqsUpTo(RowsB2, MaxRowsB)}
    \cup {[cols |-> <<"K", "O", "T">>, rows |-> r] : r \in SeqsUpTo(RowsB3, MaxRowsB)}

\* "NaN" is a default NA string of read_excel, "NAN" is not
SampleA == [cols |-> <<"K", "S">>,
            rows |-> <<[K |-> Str(<<"a">>), S |-> Num(1)],
                       [K |-> Str(<<"N", "A", "N">>), S |-> Num(2)]>>]
SampleB == [cols |-> <<"K", "O", "T">>,
            rows |-> <<[K |-> Str(<<"A">>), O |-> Num(7), T |-> Num(5)],
                       [K |-> Str(<<"N", "a", "N">>), O |-> Num(8), T |-> Blank]>>]
\* a second sheet; "NA" is a default NA string of read_excel
OtherTable == [cols |-> <<"X">>,
               rows |-> <<[X |-> Str(<<"b">>)], [X |-> Str(<<"N", "A">>)]>>]

Sheet(name, table) == [name |-> name, table |-> table]

BooksB(t) == {<<Sheet("Data", t)>>,
              <<Sheet("Data", t), Sheet("0", OtherTable)>>,
              <<Sheet("0", OtherTable), Sheet("Data", t)>>}

Args(sa, ka, ca, sb, kb, tb, fill, all) ==
    [sheet_a |-> sa, key_a |-> ka, source_a |-> ca,
     sheet_b |-> sb, key_b |-> kb, target_b |-> tb,
     only_fill_empty |-> fill, copy_all_sheets |-> all]

\* every invocation shape over one sample table pair
InvocationInputs ==
    {[args |-> Args(sa, ka, ca, sb, kb, tb, fill, all), fs |-> [a |-> ea, b |-> eb],
      book_a |-> <<Sheet("S1", SampleA)>>, book_b |-> bb] :
        sa \in {Default0, ByName("S1"), ByName("Zz")},
        ka \in {"K", "Z"}, ca \in {"S", "Z"},
        sb \in {Default0, ByName("Data"), ByName("0"), ByName("Zz")},
        kb \in {"K", "Z"}, tb \in {"T", "K", "New"},
        fill \in BOOLEAN, all \in BOOLEAN,
        ea \in BOOLEAN, eb \in BOOLEAN,
        bb \in BooksB(SampleB)}

\* a source table with a text key and a blank key, a destination table with
\* one row for every kind of key
LookupA == [cols |-> <<"K", "S">>,
            rows |-> <<[K |-> Str(<<"a">>), S |-> Num(1)],
                       [K |-> Blank, S |-> Num(2)]>>]
ProbeB == [cols |-> <<"K", "O", "T">>,
           rows |-> <<[K |-> Str(<<"A">>), O |-> Num(7), T |-> Num(5)],
                      [K |-> Blank, O |-> Num(7), T |-> Blank],
                      [K |-> Str(<<" ">>), O |-> Num(7), T |-> Str(<<" ">>)]>>]

\* every source table against ProbeB, every destination table against LookupA
TablePairs == (TablesA \X {ProbeB}) \cup ({LookupA} \X TablesB)

\* the table pairs under a well-formed invocation
DataInputs ==
    {[args |-> Args(Default0, "K", "S", Default0, "K", tb, fill, FALSE),
      fs |-> [a |-> TRUE, b |-> TRUE],
      book_a |-> <<Sheet("S1", tp[1])>>, book_b |-> <<Sheet("Data", tp[2])>>] :
        tb \in {"T", "K"}, fill \in BOOLEAN, tp \in TablePairs}

Inputs == InvocationInputs \cup DataInputs

---------------------------------------------------------------------------
(* main() *)

Init ==
    /\ \E in \in Inputs :
          /\ args = in.args
          /\ fs = in.fs
          /\ book_a = in.book_a
          /\ book_b = in.book_b
    /\ pc = "check_a"
    /\ df_a = NoFrame
    /\ df_b = NoFrame
    /\ mapping = <<>>
    /\ key_b_norm = <<>>
    /\ matched_values = <<>>
    /\ matches = -1
    /\ total = -1
    /\ stdout = <<>>
    /\ out_book = <<>>
    /\ exit = Running

Abort(e) ==
    /\ pc' = "exited"
    /\ exit' = Failed(e)

\* lines 46-47
CheckFileA ==
    /\ pc = "check_a"
    /\ IF ~fs.a THEN Abort("file_a_not_found")
                ELSE pc' = "check_b" /\ exit' = exit
    /\ UNCHANGED <<args, fs, book_a, book_b, df_a, df_b, mapping, key_b_norm,
                   matched_values, matches, total, stdout, out_book>>

\* lines 48-49
CheckFileB ==
    /\ pc = "check_b"
    /\ IF ~fs.b THEN Abort("file_b_not_found")
                ELSE pc' = "read_a" /\ exit' = exit
    /\ UNCHANGED <<args, fs, book_a, book_b, df_a, df_b, mapping, key_b_norm,
                   matched_values, matches, total, stdout, out_book>>

\* line 55 (an unresolved sheet is an uncaught exception of read_excel; the
\* engine pick_engine chooses at lines 51-52 is taken to read the workbook)
ReadA ==
    /\ pc = "read_a"
    /\ IF SheetPos(book_a, args.sheet_a) = 0
       THEN Abort("sheet_a_unresolved") /\ df_a' = df_a
       ELSE /\ df_a' = read_excel(book_a, args.sheet_a)
            /\ pc' = "read_b"
            /\ exit' = exit
    /\ UNCHANGED <<args, fs, book_a, book_b, df_b, mapping, key_b_norm,
                   matched_values, matches, total, stdout, out_book>>

\* line 56
ReadB ==
    /\ pc = "read_b"
    /\ IF SheetPos(book_b, args.sheet_b) = 0
       THEN Abort("sheet_b_unresolved") /\ df_b' = df_b
       ELSE /\ df_b' = read_excel(book_b, args.sheet_b)
            /\ pc' = "validate"
            /\ exit' = exit
    /\ UNCHANGED <<args, fs, book_a, book_b, df_a, mapping, key_b_norm,
                   matched_values, matches, total, stdout, out_book>>

\* mutant: the target column is created before the columns are validated
ValidateColumns_AfterTarget ==
    /\ pc = "validate"
    /\ LET missing == FirstMissing(df_a, args.key_a, args.source_a, df_b, args.key_b)
       IN  IF missing # "" THEN Abort(missing)
                           ELSE pc' = "build_mapping" /\ exit' = exit
    /\ df_b' = EnsureTargetColumn(df_b, args.target_b)
    /\ UNCHANGED <<args, fs, book_a, book_b, df_a, mapping, key_b_norm,
                   matched_values, matches, total, stdout, out_book>>

\* lines 59-63
ValidateColumns ==
    /\ pc = "validate"
    /\ LET missing == FirstMissing(df_a, args.key_a, args.source_a, df_b, args.key_b)
       IN  IF missing # "" THEN Abort(missing)
                           ELSE pc' = "build_mapping" /\ exit' = exit
    /\ UNCHANGED <<args, fs, book_a, book_b, df_a, df_b, mapping, key_b_norm,
                   matched_values, matches, total, stdout, out_book>>

\* lines 66-68
BuildMapping ==
    /\ pc = "build_mapping"
    /\ df_a' = WithKeyNorm(df_a, args.key_a)
    /\ mapping' = GroupFirst(df_a', args.source_a)
    /\ pc' = "map_keys"
    /\ UNCHANGED <<args, fs, book_a, book_b, df_b, key_b_norm,
                   matched_values, matches, total, stdout, out_book, exit>>

\* lines 71-72
MapKeys ==
    /\ pc = "map_keys"
    /\ key_b_norm' = normalize_key(Column(df_b, args.key_b))
    /\ matched_values' = SeriesMap(key_b_norm', mapping)
    /\ pc' = "ensure_target"
    /\ UNCHANGED <<args, fs, book_a, book_b, df_a, df_b, mapping,
                   matches, total, stdout, out_book, exit>>

\* lines 76-77
EnsureTarget ==
    /\ pc = "ensure_target"
    /\ df_b' = EnsureTargetColumn(df_b, args.target_b)
    /\ pc' = "fill_policy"
    /\ UNCHANGED <<args, fs, book_a, book_b, df_a, mapping, key_b_norm,
                   matched_values, matches, total, stdout, out_book, exit>>

\* line 79: "args.only-fill-empty" is the expression args.only - fill - empty;
\* the namespace has no attribute "only" (argparse stores the flag as
\* only_fill_empty), so evaluating the condition raises AttributeError for
\* either value of the flag, and the exception is not caught.
FillPolicy ==
    /\ pc = "fill_policy"
    /\ Abort("AttributeError")
    /\ UNCHANGED <<args, fs, book_a, book_b, df_a, df_b, mapping, key_b_norm,
                   matched_values, matches, total, stdout, out_book>>

Next ==
    \/ CheckFileA
    \/ CheckFileB
    \/ ReadA
    \/ ReadB
    \/ ValidateColumns
    \/ BuildMapping
    \/ MapKeys
    \/ EnsureTarget
    \/ FillPolicy

Spec == Init /\ [][Next]_vars

---------------------------------------------------------------------------
(* The statements after line 79.  Spec never executes them: every run that *)
(* reaches line 79 ends there.  SpecTail starts main() behind line 79, in   *)
(* the states in which Spec arrives at line 79, and takes the branch the    *)
(* flag only_fill_empty names.                                              *)

\* line 81: isna() | (astype(str).str.strip() == "")
IsBlankSeries(series) ==
    [i \in 1..Len(series) |->
        IsNa(series[i]) \/ Strip(AsTypeStr(series[i], FloatDtype(series))) = <<>>]

\* lines 81-82: df_b.loc[is_blank, target] = matched_values.loc[is_blank]
FillEmptyTarget(df, target, matched) ==
    LET is_blank == IsBlankSeries(Column(df, target))
    IN  SetColumn(df, target,
                  [i \in 1..Len(df.rows) |->
                      IF is_blank[i] THEN matched[i] ELSE df.rows[i][target]])

\* line 85: df_b[target] = matched_values
OverwriteTarget(df, target, matched) == SetColumn(df, target, matched)

\* line 88: matched_values.notna().sum()
CountNotNa(series) == Cardinality({i \in 1..Len(series) : ~IsNa(series[i])})

\* DataFrame.to_excel(index=False): NaN and pd.NA become empty cells
to_excel(df) ==
    [cols |-> df.cols,
     rows |-> [i \in 1..Len(df.rows) |->
                 [c \in DOMAIN df.rows[i] |->
                     IF IsNa(df.rows[i][c]) THEN Blank ELSE df.rows[i][c]]]]

\* lines 100-101: the test that sends df_b to sheet number p of workbook B
\* (str(args.sheet_b) == sname, or the int selector names position p)
IsTargetSheet(book, sel, p) ==
    \/ sel.s = book[p].name
    \/ sel.isint /\ book[p].name = book[sel.i + 1].name

\* lines 97-107
AllSheetsOutput(book, sel, df) ==
    [p \in 1..Len(book) |->
        Sheet(book[p].name,
              IF IsTargetSheet(book, sel, p)
              THEN to_excel(df)
              ELSE to_excel(read_excel(book, ByName(book[p].name))))]

\* lines 110-114: df_b.attrs holds no sheet name
SingleSheetOutput(sel, df) ==
    <<Sheet(IF sel.isint THEN "Sheet1" ELSE sel.s, to_excel(df))>>

\* lines 65-85 with the Overwrite branch, as a function of the two tables
MergedOverwrite(a, b, ka, sa, kb, tb) ==
    LET a1 == WithKeyNorm(a, ka)
        m == GroupFirst(a1, sa)
        mv == SeriesMap(normalize_key(Column(b, kb)), m)
    IN  OverwriteTarget(EnsureTargetColumn(b, tb), tb, mv)

InitTail ==
    /\ \E in \in Inputs :
          /\ args = in.args
          /\ fs = in.fs
          /\ book_a = in.book_a
          /\ book_b = in.book_b
    /\ fs.a /\ fs.b
    /\ SheetPos(book_a, args.sheet_a) # 0
    /\ SheetPos(book_b, args.sheet_b) # 0
    /\ FirstMissing(read_excel(book_a, args.sheet_a), args.key_a, args.source_a,
                    read_excel(book_b, args.sheet_b), args.key_b) = ""
    /\ df_a = WithKeyNorm(read_excel(book_a, args.sheet_a), args.key_a)
    /\ mapping = GroupFirst(df_a, args.source_a)
    /\ key_b_norm = normalize_key(Column(read_excel(book_b, args.sheet_b), args.key_b))
    /\ matched_values = SeriesMap(key_b_norm, mapping)
    /\ df_b = EnsureTargetColumn(read_excel(book_b, args.sheet_b), args.target_b)
    /\ pc = "apply_policy"
    /\ matches = -1
    /\ total = -1
    /\ stdout = <<>>
    /\ out_book = <<>>
    /\ exit = Running

\* lines 80-85
ApplyPolicy ==
    /\ pc = "apply_policy"
    /\ df_b' = IF args.only_fill_empty
               THEN FillEmptyTarget(df_b, args.target_b, matched_values)
               ELSE OverwriteTarget(df_b, args.target_b, matched_values)
    /\ pc' = "stats"
    /\ UNCHANGED <<args, fs, book_a, book_b, df_a, mapping, key_b_norm,
                   matched_values, matches, total, stdout, out_book, exit>>

\* lines 88-90
MatchStats ==
    /\ pc = "stats"
    /\ matches' = CountNotNa(matched_values)
    /\ total' = Len(df_b.rows)
    /\ stdout' = Append(stdout, "Matched")
    /\ pc' = "write"
    /\ UNCHANGED <<args, fs, book_a, book_b, df_a, df_b, mapping, key_b_norm,
                   matched_values, out_book, exit>>

\* lines 93-116, and the return of main()
WriteOutput ==
    /\ pc = "write"
    /\ out_book' = IF args.copy_all_sheets
                   THEN AllSheetsOutput(book_b, args.sheet_b, df_b)
                   ELSE SingleSheetOutput(args.sheet_b, df_b)
    /\ stdout' = Append(stdout, "Done")
    /\ pc' = "exited"
    /\ exit' = [status |-> 0, error |-> ""]
    /\ UNCHANGED <<args, fs, book_a, book_b, df_a, df_b, mapping, key_b_norm,
                   matched_values, matches, total>>

NextTail ==
    \/ ApplyPolicy
    \/ MatchStats
    \/ WriteOutput

SpecTail == InitTail /\ [][NextTail]_vars

---------------------------------------------------------------------------
(* Vocabulary of the properties *)

\* the tables as read_excel delivers them, before main() touches them
OrigA == read_excel(book_a, args.sheet_a)
OrigB == read_excel(book_b, args.sheet_b)

SheetsResolve ==
    /\ SheetPos(book_a, args.sheet_a) # 0
    /\ SheetPos(book_b, args.sheet_b) # 0

\* both files exist, both sheets resolve, key-a, source-a and key-b are present
PrecondOK ==
    /\ fs.a /\ fs.b
    /\ SheetsResolve
    /\ FirstMissing(OrigA, args.key_a, args.source_a, OrigB, args.key_b) = ""

\* files and sheets are fine and a required column is missing
ColumnMissing ==
    /\ fs.a /\ fs.b
    /\ SheetsResolve
    /\ FirstMissing(OrigA, args.key_a, args.source_a, OrigB, args.key_b) # ""

DeclaredFailures ==
    {"file_a_not_found", "file_b_not_found", "sheet_a_unresolved",
     "sheet_b_unresolved", "key-a", "source-a", "key-b"}

\* positions of main() behind line 79, and the exits that follow line 72
TailPcs == {"apply_policy", "stats", "write"}
LateExit == pc = "exited" /\ exit.error \in {"AttributeError", ""}

MappingBuilt == pc \in {"map_keys", "ensure_target", "fill_policy"} \cup TailPcs
                \/ LateExit
KeysMapped == pc \in {"ensure_target", "fill_policy"} \cup TailPcs
              \/ LateExit

\* the normalized key of a text or blank key cell
NormKey(c) == NormalizeCell(c, FALSE)

\* lookup in the index: the value, blank when the key is absent
Lookup(m, k) == IF k \in DOMAIN m THEN m[k] ELSE Blank

\* The index the specification describes, by a scan of the source rows in
\* their original order: the value of the first row at or after position i
\* whose normalized key is k and whose value is non-null, blank when there
\* is none.
RECURSIVE FirstNonNullFrom(_, _, _, _, _)
FirstNonNullFrom(rows, keyCol, valCol, k, i) ==
    IF i > Len(rows) THEN Blank
    ELSE IF NormKey(rows[i][keyCol]) = k /\ rows[i][valCol].t # "blank"
         THEN rows[i][valCol]
         ELSE FirstNonNullFrom(rows, keyCol, valCol, k, i + 1)

ExpectedLookup(k) == FirstNonNullFrom(OrigA.rows, args.key_a, args.source_a, k, 1)

\* normalized keys worth asking the index for
ProbeKeys ==
    {NormKey(c) : c \in KeyCellsA \cup KeyCellsB}
    \cup {NormKey(OrigA.rows[i][args.key_a]) : i \in 1..Len(OrigA.rows)}
    \cup {<<"z">>}

---------------------------------------------------------------------------
(* C1 *)

\* C1: a run whose preconditions hold runs to completion (status zero, both
\* messages printed, output written); a run stops early only by a declared
\* precondition failure.  Stated on the final state of a run.
C1_RunsToCompletion ==
    pc = "exited" =>
        \/ exit.status = 1 /\ exit.error \in DeclaredFailures /\ ~PrecondOK
        \/ exit.status = 0 /\ PrecondOK /\ out_book # <<>> /\ Len(stdout) = 2

---------------------------------------------------------------------------
(* C2 *)

\* C2: for every normalized key k the index returns the value cell of the
\* first source row, in row order, whose normalized key is k and whose value
\* is non-null, and blank when there is no such row; the values mapped onto
\* the destination rows (line 72) are these lookups.
C2_FirstNonNullWins ==
    /\ MappingBuilt =>
          \A k \in ProbeKeys : Lookup(mapping, k) = ExpectedLookup(k)
    /\ KeysMapped =>
          \A j \in 1..Len(OrigB.rows) :
              matched_values[j] = ExpectedLookup(NormKey(OrigB.rows[j][args.key_b]))

\* a case-variant duplicate whose first row has a null value: the later
\* non-null row is the one the index returns
C2_Witness ==
    /\ MappingBuilt
    /\ \E i, j \in 1..Len(OrigA.rows) :
          /\ i < j
          /\ OrigA.rows[i][args.key_a] # OrigA.rows[j][args.key_a]
          /\ NormKey(OrigA.rows[i][args.key_a]) = NormKey(OrigA.rows[j][args.key_a])
          /\ OrigA.rows[i][args.source_a].t = "blank"
          /\ OrigA.rows[j][args.source_a].t # "blank"
          /\ Lookup(mapping, NormKey(OrigA.rows[i][args.key_a])) = OrigA.rows[j][args.source_a]

\* both rows non-null: the earlier one wins
C2_WitnessFirst ==
    /\ MappingBuilt
    /\ \E i, j \in 1..Len(OrigA.rows) :
          /\ i < j
          /\ OrigA.rows[i][args.key_a] # OrigA.rows[j][args.key_a]
          /\ NormKey(OrigA.rows[i][args.key_a]) = NormKey(OrigA.rows[j][args.key_a])
          /\ OrigA.rows[i][args.source_a].t # "blank"
          /\ OrigA.rows[j][args.source_a].t # "blank"
          /\ OrigA.rows[i][args.source_a] # OrigA.rows[j][args.source_a]
          /\ Lookup(mapping, NormKey(OrigA.rows[i][args.key_a])) = OrigA.rows[i][args.source_a]

---------------------------------------------------------------------------
(* C3, C4 *)

\* the destination key of row j, normalized, and what the index holds for it
DestKey(j) == NormKey(OrigB.rows[j][args.key_b])
DestLookup(j) == ExpectedLookup(DestKey(j))

\* the target cell of row j before the merge (blank when the column is new)
TargetBefore(j) ==
    IF InCols(args.target_b, OrigB) THEN OrigB.rows[j][args.target_b] ELSE Blank

\* the target cell of row j in the destination table as main() leaves it
TargetAfter(j) ==
    IF InCols(args.target_b, df_b) THEN df_b.rows[j][args.target_b] ELSE Blank

\* blank in the sense of the fill policy: null, or empty after trimming
BlankTarget(c) == c.t = "blank" \/ (c.t = "str" /\ Strip(c.s) = <<>>)

\* C3: under FillEmptyOnly a non-blank target cell is unchanged by the run
\* and a blank target cell holds the looked-up value of the row's key.
\* Stated on the final state of a run whose preconditions hold.
C3_FillEmptyOnly ==
    (pc = "exited" /\ PrecondOK /\ args.only_fill_empty) =>
        \A j \in 1..Len(OrigB.rows) :
            IF BlankTarget(TargetBefore(j))
            THEN TargetAfter(j) = DestLookup(j)
            ELSE TargetAfter(j) = TargetBefore(j)

\* C4: under Overwrite every target cell equals the looked-up value of the
\* row's key (blank on a miss) whatever it held before.  Stated on the final
\* state of a run whose preconditions hold.
C4_Overwrite ==
    (pc = "exited" /\ PrecondOK /\ ~args.only_fill_empty) =>
        \A j \in 1..Len(OrigB.rows) : TargetAfter(j) = DestLookup(j)

---------------------------------------------------------------------------
(* C5 *)

LoadedB ==
    \/ pc \in {"validate", "build_mapping", "map_keys", "ensure_target", "fill_policy"}
              \cup TailPcs
    \/ pc = "exited" /\ exit.error \in {"key-a", "source-a", "key-b"}
    \/ LateExit

---------------------------------------------------------------------------
(* C6 *)

\* C6: when key-a, source-a or key-b is missing the run ends with the error
\* that names the first missing column, and never builds the index, maps the
\* keys, creates the target column, changes either table or writes output.
C6_ColumnMissingAborts ==
    ColumnMissing =>
        /\ pc \in {"check_a", "check_b", "read_a", "read_b", "validate", "exited"}
        /\ mapping = <<>>
        /\ key_b_norm = <<>>
        /\ matched_values = <<>>
        /\ out_book = <<>>
        /\ stdout = <<>>
        /\ df_a \in {NoFrame, OrigA}
        /\ df_b \in {NoFrame, OrigB}
        /\ pc = "exited" =>
              /\ exit = Failed(FirstMissing(OrigA, args.key_a, args.source_a,
                                            OrigB, args.key_b))
              /\ df_b = OrigB
              /\ InCols(args.target_b, df_b) <=> InCols(args.target_b, OrigB)

\* the run ended on a missing column although the target column would have
\* had to be created
C6_Witness ==
    /\ ColumnMissing
    /\ pc = "exited"
    /\ exit.error \in {"key-a", "source-a", "key-b"}
    /\ ~InCols(args.target_b, OrigB)
    /\ Len(OrigB.rows) > 0

---------------------------------------------------------------------------
(* C7 *)

\* C7: in all-sheets mode the output holds every sheet of workbook B in the
\* original order; the sheet the destination table was read from holds the
\* merged table and every other sheet its original contents.  Stated on the
\* final state of a run whose preconditions hold.
C7_AllSheets ==
    (pc = "exited" /\ PrecondOK /\ args.copy_all_sheets) =>
        /\ Len(out_book) = Len(book_b)
        /\ \A p \in 1..Len(book_b) :
              /\ out_book[p].name = book_b[p].name
              /\ out_book[p].table =
                    IF p = SheetPos(book_b, args.sheet_b)
                    THEN df_b
                    ELSE book_b[p].table

\* The next two hold vacuously under Spec, which writes no output; they are
\* read under SpecTail.
\* C7, last part alone: when an output is written in all-sheets mode, no
\* sheet other than the selected one holds the merged table
C7_OnlySelectedReplaced ==
    (pc = "exited" /\ args.copy_all_sheets /\ out_book # <<>>) =>
        \A p \in 1..Len(out_book) :
            p # SheetPos(book_b, args.sheet_b) => out_book[p].table # df_b

\* C7, the pass-through alone: when an output is written in all-sheets mode,
\* every sheet the sheet test does not select is written with the cells it
\* has in workbook B
C7_OthersVerbatim ==
    (pc = "exited" /\ args.copy_all_sheets /\ out_book # <<>>) =>
        \A p \in 1..Len(out_book) :
            ~IsTargetSheet(book_b, args.sheet_b, p)
                => out_book[p].table = book_b[p].table

---------------------------------------------------------------------------
(* C8 *)

\* C8: matched is the number of destination rows whose normalized key
\* resolves to a non-null source value and total is the destination row
\* count.  Stated on the final state of a run whose preconditions hold.
C8_MatchStats ==
    (pc = "exited" /\ PrecondOK) =>
        /\ matches = Cardinality({j \in 1..Len(OrigB.rows) : DestLookup(j).t # "blank"})
        /\ total = Len(OrigB.rows)

---------------------------------------------------------------------------
(* C10 *)

WhitespaceOnly(c) == c.t = "str" /\ Strip(c.s) = <<>>

\* C10: a blank key normalizes to the empty string, so it equals a source
\* key exactly when that key is blank, empty or whitespace-only.
C10_BlankKeyIsEmpty ==
    KeysMapped =>
        \A j \in 1..Len(OrigB.rows) :
            OrigB.rows[j][args.key_b].t = "blank" =>
                /\ key_b_norm[j] = <<>>
                /\ \A i \in 1..Len(OrigA.rows) :
                      (df_a.rows[i]["_key_norm_"].s = key_b_norm[j])
                      <=> (\/ OrigA.rows[i][args.key_a].t = "blank"
                           \/ WhitespaceOnly(OrigA.rows[i][args.key_a]))

\* C10, last part alone: a blank key never equals a non-blank text key
C10_BlankNeverEqualsText ==
    KeysMapped =>
        \A j \in 1..Len(OrigB.rows) : \A i \in 1..Len(OrigA.rows) :
            (/\ OrigB.rows[j][args.key_b].t = "blank"
             /\ OrigA.rows[i][args.key_a].t = "str"
             /\ ~WhitespaceOnly(OrigA.rows[i][args.key_a]))
            => df_a.rows[i]["_key_norm_"].s # key_b_norm[j]

\* C10, middle part alone: a blank key equals a whitespace-only key
C10_BlankEqualsWhitespace ==
    KeysMapped =>
        \A j \in 1..Len(OrigB.rows) : \A i \in 1..Len(OrigA.rows) :
            (/\ WhitespaceOnly(OrigB.rows[j][args.key_b])
             /\ OrigA.rows[i][args.key_a].t = "blank")
            => df_a.rows[i]["_key_norm_"].s = key_b_norm[j]

---------------------------------------------------------------------------
(* C9 *)

\* the table a second run reads from the output of the first
Reread == read_excel(out_book, args.sheet_b)

\* C9: under Overwrite, a second merge with the same source and the first
\* merge's output as the destination yields the first merge's output.
\* Stated on the final state of a run whose preconditions hold.
C9_Idempotent ==
    (pc = "exited" /\ PrecondOK /\ ~args.only_fill_empty) =>
        /\ out_book # <<>>
        /\ SheetPos(out_book, args.sheet_b) # 0
        /\ to_excel(MergedOverwrite(OrigA, Reread, args.key_a, args.source_a,
                                    args.key_b, args.target_b))
               = out_book[SheetPos(out_book, args.sheet_b)].table

\* C9 restricted to a target column that is not the destination key column
\* (read under SpecTail)
C9_IdempotentDistinctTarget ==
    args.target_b # args.key_b => C9_Idempotent

====
